---- MODULE Spec2Model ----
(***************************************************************************)
(* RaceLock JS (GlobalLock): the in-memory lock registry of index.js.      *)
(* One Node.js event loop runs every call to completion; the interleaving  *)
(* points are the timer callbacks (lock expiry, waitForUnlock polls) and   *)
(* the calls that tasks make between their suspensions.                    *)
(***************************************************************************)
EXTENDS Integers, FiniteSets, Sequences, TLC

\* ---------------------------------------------------------------- bounds
MaxRecords == 2     \* at most this many successful start calls in a run

Keys == {"a", "b"}
Null == "null"                       \* JavaScript null (an absent ownerId)
Owners == {"w1", "w2"}
OwnerArgs == Owners \cup {Null}
Metas == {"{}", "m1"}                \* opaque metadata; "{}" is the default
Timeouts == {0 - 1, 0, 1}            \* timeout arguments of start
Times == {10, 20}                    \* values Date.now() returns
Tasks == {"t1", "t2"}                \* tasks following the README pattern
Waiters == {"v1", "v2"}              \* callers of waitForUnlock
Retriers == {"r1"}                   \* callers of retryStart
AttemptArgs == {0 - 1, 0, 1, 2, 3}    \* attempts arguments of retryStart
Holders == {"t1"}                    \* the task a retrier contends with
Delays == {100, 200}                 \* initialDelay arguments of retryStart
RetryDefaultTimeout == 5000          \* retryStart: timeout = 5000
NoTimer == 0                         \* timeoutId: null
NoKey == "-"

VARIABLES
    locks,      \* the Map: a function from the locked keys to their lockInfo
    timers,     \* pending setTimeout handles of start: [id, key]
    intervals,  \* pending setInterval handles of waitForUnlock: [w, key]
    nextId,     \* identity of the next lockInfo object / Timeout handle
    task,       \* per task: where it is in the README pattern
    waiter,     \* per waiter: state of the promise waitForUnlock returned, and
                \* (history) the record that held its key at its latest check
    retry,      \* per retrier: the arguments and the loop state of its retryStart call
    last,       \* history: the call or callback that ran last, and what it found
    overrun,    \* history: the keys whose expiry timer fired while a task was inside
    cleared     \* history: the timer handles that clearTimeout has cancelled

vars == <<locks, timers, intervals, nextId, task, waiter, retry, last, overrun, cleared>>

\* the record of an absent key, for the history variable only
NoRecord == [timestamp |-> 0, meta |-> "{}", ownerId |-> Null, timeoutId |-> NoTimer, rid |-> 0]

\* ------------------------------------------------------------ the Map
locksHas(key) == key \in DOMAIN locks

locksGet(key) == IF locksHas(key) THEN locks[key] ELSE NoRecord

locksSet(key, lockInfo) ==
    [k \in DOMAIN locks \cup {key} |-> IF k = key THEN lockInfo ELSE locks[k]]

locksDelete(key) == [k \in DOMAIN locks \ {key} |-> locks[k]]

\* ------------------------------------------------------------ timers
setTimeout(key) == timers \cup {[id |-> nextId, key |-> key]}

\* a faulty clearTimeout: the timer stays scheduled
clearTimeout_noop(timeoutId, pending) == pending

clearTimeout(timeoutId, pending) == {tm \in pending : tm.id # timeoutId}

\* ------------------------------------------------------------ start
\* a faulty start: the presence check is missing
startFails_never(key) == FALSE

startFails(key) == locksHas(key)

newLockInfo(dateNow, timeout, meta, ownerId) ==
    [timestamp |-> dateNow, meta |-> meta, ownerId |-> ownerId,
     timeoutId |-> IF timeout > 0 THEN nextId ELSE NoTimer, rid |-> nextId]

\* lines 48-63: the record is built, its timer scheduled, the record stored
acquire(key, timeout, meta, ownerId, dateNow) ==
    /\ timers' = IF timeout > 0 THEN setTimeout(key) ELSE timers
    /\ locks' = locksSet(key, newLockInfo(dateNow, timeout, meta, ownerId))
    /\ nextId' = nextId + 1

\* a faulty start: a call on a held key still stamps the record with the call's time
start_touch(key, timeout, meta, ownerId, dateNow) ==
    IF startFails(key)
    THEN /\ locks' = [locks EXCEPT ![key].timestamp = dateNow]
         /\ UNCHANGED <<timers, nextId>>
    ELSE acquire(key, timeout, meta, ownerId, dateNow)

start(key, timeout, meta, ownerId, dateNow) ==
    IF startFails(key)
    THEN UNCHANGED <<locks, timers, nextId>>
    ELSE acquire(key, timeout, meta, ownerId, dateNow)

\* a faulty start: it reports success whatever it did
startReturns_always(key) == TRUE

startReturns(key) == ~startFails(key)

\* a start call the bound allows: it fails, or an identity is left for its record
CanStart(key) == locksHas(key) \/ nextId <= MaxRecords

\* -------------------------------------------------------------- end
\* faulty ownership guards: none at all; none for a record without an owner;
\* one that also refuses a caller who passes no ownerId
endRefused_never(lock, ownerId) == FALSE

endRefused_lenient(lock, ownerId) ==
    ownerId # Null /\ lock.ownerId # Null /\ lock.ownerId # ownerId

endRefused_strict(lock, ownerId) == lock.ownerId # ownerId

endRefused(lock, ownerId) == ownerId # Null /\ lock.ownerId # ownerId

end(key, ownerId) ==
    IF ~locksHas(key)
    THEN UNCHANGED <<locks, timers>>
    ELSE IF endRefused(locks[key], ownerId)
         THEN UNCHANGED <<locks, timers>>
         ELSE /\ timers' = IF locks[key].timeoutId # NoTimer
                           THEN clearTimeout(locks[key].timeoutId, timers)
                           ELSE timers
              /\ locks' = locksDelete(key)

isLocked(key) == locksHas(key)

\* a faulty forceUnlock: the record is deleted and its timer left scheduled
forceUnlock_noCancel(key) ==
    /\ locks' = locksDelete(key)
    /\ timers' = timers

\* a faulty forceUnlock: it opens every lock
forceUnlock_clearsAll(key) ==
    /\ timers' = {}
    /\ locks' = [k \in {} |-> NoRecord]

forceUnlock(key) == end(key, Null)

\* what getLockInfo returns for a key without record
Undefined == [undefined |-> TRUE]

\* a faulty getLockInfo: it returns the record itself
getLockInfo_whole(key) == IF locksHas(key) THEN locks[key] ELSE Undefined

\* const { timeoutId, ...info } = lock
getLockInfo(key) ==
    IF locksHas(key)
    THEN [timestamp |-> locks[key].timestamp, meta |-> locks[key].meta,
          ownerId |-> locks[key].ownerId]
    ELSE Undefined

getLockCount == Cardinality(DOMAIN locks)

\* the keys of a Map come in the order of their insertion
RECURSIVE keysOf(_)
keysOf(S) ==
    IF S = {} THEN << >>
    ELSE LET first == CHOOSE k \in S : \A j \in S : locks[k].rid <= locks[j].rid
         IN <<first>> \o keysOf(S \ {first})

getAllLockedKeys == keysOf(DOMAIN locks)

\* a faulty clearAllLocks: the timers are left scheduled
clearAllLocks_noCancel ==
    /\ timers' = timers
    /\ locks' = [k \in {} |-> NoRecord]

clearAllLocks ==
    /\ timers' = {tm \in timers :
                    \A k \in DOMAIN locks :
                        locks[k].timeoutId = NoTimer \/ locks[k].timeoutId # tm.id}
    /\ locks' = [k \in {} |-> NoRecord]

\* a faulty expiry callback: it only logs
expiryCallback_logOnly(key) == locks' = locks

\* the callback of start's setTimeout
expiryCallback(key) == locks' = locksDelete(key)

\* a faulty poll: it resolves at the first tick
pollResolves_always(key) == TRUE

\* the callback of waitForUnlock's setInterval: TRUE when it resolves
pollResolves(key) == ~isLocked(key)

\* ------------------------------------------------------- retryStart
RECURSIVE Pow2(_)
Pow2(i) == IF i <= 0 THEN 1 ELSE 2 * Pow2(i - 1)

\* const delay = initialDelay * Math.pow(2, i)
backoff(initialDelay, i) == initialDelay * Pow2(i)

\* a faulty default: retryStart without timeout takes locks that never expire
retryTimeout_zero(given, timeout) == IF given THEN timeout ELSE 0

\* the timeout parameter: the argument, or the default when none is given
retryTimeout(given, timeout) == IF given THEN timeout ELSE RetryDefaultTimeout

\* faulty loop conditions: one attempt too many; at least one attempt
retryContinues_offByOne(i, attempts) == i <= attempts

retryContinues_doWhile(i, attempts) == i < attempts \/ i = 0

\* for (let i = 0; i < attempts; i++)
retryContinues(i, attempts) == i < attempts

\* ------------------------------------------------------------ history
\* the call (op, key, ownerId, whether timeout > 0, start's result) and the state it
\* met: the owner and the timer of key's record (for a call without a key: whether
\* any timer was pending), the identity of key's record and the number of locks;
\* by: the waiter or retrier whose callback ran; view: what a read returned
NoView == [read |-> FALSE]

Call(op, key, ownerId, timeout, ret) ==
    [op |-> op, key |-> key, ownerId |-> ownerId, timeout |-> timeout > 0, ret |-> ret,
     prevOwner |-> IF key \in Keys THEN locksGet(key).ownerId ELSE Null,
     prevTimer |-> IF key \in Keys THEN locksGet(key).timeoutId # NoTimer ELSE timers # {},
     prevRid |-> IF key \in Keys THEN locksGet(key).rid ELSE 0,
     prevCount |-> getLockCount,
     by |-> "-", view |-> NoView]

\* the handles that this step passes to clearTimeout: those of the records it removes
Cancelled ==
    {[id |-> locks[k].timeoutId, key |-> k] :
        k \in {j \in DOMAIN locks : j \notin DOMAIN locks' /\ locks[j].timeoutId # NoTimer}}

Read(op, key, ret) ==
    /\ last' = [Call(op, key, Null, 0, FALSE) EXCEPT !.view = [read |-> TRUE, ret |-> ret]]
    /\ UNCHANGED <<locks, timers, intervals, nextId, task, waiter, retry, overrun, cleared>>

Init ==
    /\ locks = [k \in {} |-> NoRecord]
    /\ timers = {}
    /\ intervals = {}
    /\ nextId = 1
    /\ task = [t \in Tasks |-> [pc |-> "idle", key |-> NoKey]]
    /\ waiter = [w \in Waiters |-> [pc |-> "idle", key |-> NoKey, resolved |-> 0, saw |-> 0]]
    /\ retry = [r \in Retriers |->
                  [pc |-> "idle", key |-> NoKey, attempts |-> 0, initialDelay |-> 0,
                   given |-> FALSE, timeout |-> 0, ownerId |-> Null,
                   i |-> 0, calls |-> 0, slept |-> << >>, ret |-> FALSE, rid |-> 0]]
    /\ last = Call("init", NoKey, Null, 0, FALSE)
    /\ overrun = {}
    /\ cleared = {}

\* ------------------------------------------------ calls from anywhere
Start(key, timeout, meta, ownerId) ==
    /\ CanStart(key)
    /\ \E dateNow \in Times : start(key, timeout, meta, ownerId, dateNow)
    /\ last' = Call("start", key, ownerId, timeout, startReturns(key))
    /\ UNCHANGED <<intervals, task, waiter, retry, overrun, cleared>>

End(key, ownerId) ==
    /\ end(key, ownerId)
    /\ last' = Call("end", key, ownerId, 0, FALSE)
    /\ UNCHANGED <<intervals, nextId, task, waiter, retry, overrun>>
    /\ cleared' = cleared \cup Cancelled

ForceUnlock(key) ==
    /\ forceUnlock(key)
    /\ last' = Call("forceUnlock", key, Null, 0, FALSE)
    /\ UNCHANGED <<intervals, nextId, task, waiter, retry, overrun>>
    /\ cleared' = cleared \cup Cancelled

ClearAllLocks ==
    /\ clearAllLocks
    /\ last' = Call("clearAllLocks", NoKey, Null, 0, FALSE)
    /\ UNCHANGED <<intervals, nextId, task, waiter, retry, overrun>>
    /\ cleared' = cleared \cup Cancelled

\* ------------------------------------------------------ the event loop
Expire(tm) ==
    /\ tm \in timers
    /\ timers' = timers \ {tm}
    /\ expiryCallback(tm.key)
    /\ last' = Call("expire", tm.key, Null, 0, FALSE)
    /\ overrun' = overrun \cup {task[t].key : t \in {u \in Tasks : task[u].pc = "inside" /\ task[u].key = tm.key}}
    /\ UNCHANGED <<intervals, nextId, task, waiter, retry, cleared>>

\* ------------------------------ tasks of the README's Basic Locking pattern
TaskEnter(t, key, timeout) ==
    /\ task[t].pc = "idle"
    /\ timeout >= 0
    /\ CanStart(key)
    /\ \E dateNow \in Times : start(key, timeout, "{}", Null, dateNow)
    /\ task' = [task EXCEPT ![t] = IF startReturns(key)
                                   THEN [pc |-> "inside", key |-> key]
                                   ELSE [pc |-> "idle", key |-> NoKey]]
    /\ last' = Call("start", key, Null, timeout, startReturns(key))
    /\ UNCHANGED <<intervals, waiter, retry, overrun, cleared>>

TaskLeave(t) ==
    /\ task[t].pc = "inside"
    /\ end(task[t].key, Null)
    /\ task' = [task EXCEPT ![t] = [pc |-> "idle", key |-> NoKey]]
    /\ last' = Call("end", task[t].key, Null, 0, FALSE)
    /\ UNCHANGED <<intervals, nextId, waiter, retry, overrun>>
    /\ cleared' = cleared \cup Cancelled

\* ------------- workers of the README's processInvoice: each has its own ownerId
ownerOf(t) == IF t = "t1" THEN "w1" ELSE "w2"

\* the attempt of the worker's retryStart: start with the worker's ownerId
OwnerEnter(t, key, timeout) ==
    /\ task[t].pc = "idle"
    /\ CanStart(key)
    /\ \E dateNow \in Times : start(key, timeout, "m1", ownerOf(t), dateNow)
    /\ task' = [task EXCEPT ![t] = IF startReturns(key)
                                   THEN [pc |-> "inside", key |-> key]
                                   ELSE [pc |-> "idle", key |-> NoKey]]
    /\ last' = Call("start", key, ownerOf(t), timeout, startReturns(key))
    /\ UNCHANGED <<intervals, waiter, retry, overrun, cleared>>

\* finally: end(lockKey, ownerId)
OwnerLeave(t) ==
    /\ task[t].pc = "inside"
    /\ end(task[t].key, ownerOf(t))
    /\ task' = [task EXCEPT ![t] = [pc |-> "idle", key |-> NoKey]]
    /\ last' = Call("end", task[t].key, ownerOf(t), 0, FALSE)
    /\ cleared' = cleared \cup Cancelled
    /\ UNCHANGED <<intervals, nextId, waiter, retry, overrun>>

\* ---------------------------------------------------------- the reads
IsLocked(key) == Read("isLocked", key, isLocked(key))

GetLockInfo(key) == Read("getLockInfo", key, getLockInfo(key))

GetLockCount == Read("getLockCount", NoKey, getLockCount)

GetAllLockedKeys == Read("getAllLockedKeys", NoKey, getAllLockedKeys)

\* ------------------------------------------------------- waitForUnlock
WaitForUnlock(w, key) ==
    /\ waiter[w].pc # "pending"
    /\ IF ~isLocked(key)
       THEN /\ waiter' = [waiter EXCEPT ![w] = [pc |-> "resolved", key |-> key, resolved |-> 1,
                                                 saw |-> 0]]
            /\ UNCHANGED intervals
       ELSE /\ waiter' = [waiter EXCEPT ![w] = [pc |-> "pending", key |-> key, resolved |-> 0,
                                                 saw |-> locks[key].rid]]
            /\ intervals' = intervals \cup {[w |-> w, key |-> key]}
    /\ last' = Call("waitForUnlock", key, Null, 0, FALSE)
    /\ UNCHANGED <<locks, timers, nextId, task, retry, overrun, cleared>>

PollTick(iv) ==
    /\ iv \in intervals
    /\ IF pollResolves(iv.key)
       THEN /\ intervals' = intervals \ {iv}
            /\ waiter' = [waiter EXCEPT ![iv.w].pc = "resolved",
                                        ![iv.w].resolved = @ + 1,
                                        ![iv.w].saw = 0]
       ELSE /\ waiter' = [waiter EXCEPT ![iv.w].saw = locksGet(iv.key).rid]
            /\ UNCHANGED intervals
    /\ last' = [Call("poll", iv.key, Null, 0, FALSE) EXCEPT !.by = iv.w]
    /\ UNCHANGED <<locks, timers, nextId, task, retry, overrun, cleared>>

\* -------------------------------------------------------- retryStart
\* the loop of retryStart from its head with index i, up to the next await or return
retryLoop(r, st, i) ==
    IF retryContinues(i, st.attempts)
    THEN /\ \E dateNow \in Times : start(st.key, st.timeout, "{}", st.ownerId, dateNow)
         /\ retry' = [retry EXCEPT ![r] =
                IF startReturns(st.key)
                THEN [st EXCEPT !.pc = "done", !.i = i, !.calls = @ + 1, !.ret = TRUE,
                                !.rid = nextId]
                ELSE [st EXCEPT !.pc = "sleeping", !.i = i, !.calls = @ + 1,
                                !.slept = Append(@, backoff(st.initialDelay, i))]]
         /\ last' = [Call("start", st.key, st.ownerId, st.timeout, startReturns(st.key))
                        EXCEPT !.by = r]
    ELSE /\ UNCHANGED <<locks, timers, nextId>>
         /\ retry' = [retry EXCEPT ![r] = [st EXCEPT !.pc = "done", !.i = i, !.ret = FALSE]]
         /\ last' = [Call("retryEnd", st.key, st.ownerId, st.timeout, FALSE) EXCEPT !.by = r]

RetryStart(r, key, attempts, initialDelay, given, timeout, ownerId) ==
    /\ retry[r].pc = "idle"
    /\ given \/ timeout = 0
    /\ retryLoop(r, [retry[r] EXCEPT !.key = key, !.attempts = attempts,
                                     !.initialDelay = initialDelay, !.given = given,
                                     !.timeout = retryTimeout(given, timeout),
                                     !.ownerId = ownerId], 0)
    /\ UNCHANGED <<intervals, task, waiter, overrun, cleared>>

\* the timer of the await fires: i++ and the loop goes on
RetryWake(r) ==
    /\ retry[r].pc = "sleeping"
    /\ retryLoop(r, retry[r], retry[r].i + 1)
    /\ UNCHANGED <<intervals, task, waiter, overrun, cleared>>

Next ==
    \/ \E key \in Keys, timeout \in Timeouts, meta \in Metas, ownerId \in OwnerArgs :
          Start(key, timeout, meta, ownerId)
    \/ \E key \in Keys, ownerId \in OwnerArgs : End(key, ownerId)
    \/ \E key \in Keys : ForceUnlock(key)
    \/ ClearAllLocks
    \/ \E tm \in timers : Expire(tm)

Spec == Init /\ [][Next]_vars

\* the event loop runs every timer that is due
FairSpec == Spec /\ \A id \in 1..MaxRecords, key \in Keys : WF_vars(Expire([id |-> id, key |-> key]))

\* only tasks of the README's Basic Locking pattern use the registry
NextPattern ==
    \/ \E t \in Tasks, key \in Keys, timeout \in Timeouts : TaskEnter(t, key, timeout)
    \/ \E t \in Tasks : TaskLeave(t)
    \/ \E tm \in timers : Expire(tm)

SpecPattern == Init /\ [][NextPattern]_vars

\* pattern tasks, an operator who forces locks open, and callers of waitForUnlock
NextWait ==
    \/ \E t \in Tasks, key \in Keys, timeout \in Timeouts : TaskEnter(t, key, timeout)
    \/ \E t \in Tasks : TaskLeave(t)
    \/ \E tm \in timers : Expire(tm)
    \/ \E key \in Keys : ForceUnlock(key)
    \/ ClearAllLocks
    \/ \E w \in Waiters, key \in Keys : WaitForUnlock(w, key)
    \/ \E iv \in intervals : PollTick(iv)

SpecWait == Init /\ [][NextWait]_vars

\* a pattern task holds the locks that a caller of retryStart contends for; the
\* event loop runs the timer of every await
NextRetry ==
    \/ \E t \in Holders, key \in Keys, timeout \in Timeouts : TaskEnter(t, key, timeout)
    \/ \E t \in Holders : TaskLeave(t)
    \/ \E tm \in timers : Expire(tm)
    \/ \E r \in Retriers, key \in Keys, attempts \in AttemptArgs, initialDelay \in Delays,
          given \in BOOLEAN, timeout \in Timeouts, ownerId \in OwnerArgs :
          RetryStart(r, key, attempts, initialDelay, given, timeout, ownerId)
    \/ \E r \in Retriers : RetryWake(r)

SpecRetry == Init /\ [][NextRetry]_vars /\ \A r \in Retriers : WF_vars(RetryWake(r))

\* ================================================================ claims
Inside(key) == {t \in Tasks : task[t].pc = "inside" /\ task[t].key = key}

TimerOf(lock, pending) == {tm \in pending : tm.id = lock.timeoutId}

\* C1: a start call returns true exactly when its key was absent at the call, and
\* then the key is locked with the record of that call; when the key was present
\* it returns false and the key stays locked. Every record has an identity of its
\* own, so two successful start calls on a key always have a removal between them.
C1_StartExclusive ==
    [][last'.op = "start" =>
         /\ last'.ret = (last'.key \notin DOMAIN locks)
         /\ last'.key \in DOMAIN locks'
         /\ last'.ret => /\ locks'[last'.key].ownerId = last'.ownerId
                         /\ locks'[last'.key].rid = nextId
                         /\ \A k \in DOMAIN locks : locks[k].rid < nextId
         /\ ~last'.ret => locks'[last'.key].rid = locks[last'.key].rid]_vars

\* a start call succeeded on a key that an earlier call had locked and a removal freed
C1_Witness ==
    /\ last.op = "start" /\ last.ret
    /\ last.key \in DOMAIN locks /\ locks[last.key].rid > 1
    /\ \A k \in DOMAIN locks : k = last.key

\* C2 as stated: at most one pattern task is inside the section of a key
C2_MutualExclusion == \A key \in Keys : Cardinality(Inside(key)) <= 1

\* C2, amended: at most one pattern task is inside the section of a key as long as
\* no expiry timer of that key has fired while a task was inside
C2_MutualExclusionUntilOverrun ==
    \A key \in Keys \ overrun : Cardinality(Inside(key)) <= 1

\* a task is inside under a lock with a pending timer, and another task's start on
\* the key has just been refused
C2_Witness ==
    /\ last.op = "start" /\ ~last.ret /\ last.prevTimer
    /\ last.key \notin overrun
    /\ Cardinality(Inside(last.key)) = 1
    /\ \E t \in Tasks : task[t].pc = "idle"

\* C3: a start call that returns false changes neither the registry nor any timer
C3_FailedStartNoEffect ==
    [][last'.op = "start" /\ ~last'.ret =>
         /\ locks' = locks
         /\ timers' = timers
         /\ nextId' = nextId]_vars

\* the refused call passed timeout > 0 and the holder's own ownerId, and the
\* holder's timer is still pending
C3_Witness ==
    /\ last.op = "start" /\ ~last.ret /\ last.timeout
    /\ last.ownerId # Null /\ last.ownerId = last.prevOwner
    /\ last.prevTimer
    /\ TimerOf(locks[last.key], timers) # {}

\* C4: end(k, o) with a non-null o other than the stored ownerId leaves the
\* record, the registry and every timer as they were
C4_NonOwnerEndRefused ==
    [][(/\ last'.op = "end"
        /\ last'.ownerId # Null
        /\ last'.key \in DOMAIN locks
        /\ locks[last'.key].ownerId # last'.ownerId) =>
         /\ locks' = locks
         /\ timers' = timers]_vars

\* a non-owner's end was refused on an owned record whose timer is pending
C4_Witness ==
    /\ last.op = "end" /\ last.ownerId # Null
    /\ last.key \in DOMAIN locks
    /\ locks[last.key].ownerId \notin {Null, last.ownerId}
    /\ TimerOf(locks[last.key], timers) # {}

\* C5 as stated: end(k, x) never removes a record owned by o when x differs from
\* o, a call without ownerId (x = null) included
C5_OnlyOwnerEnds ==
    [][(/\ last'.op = "end"
        /\ last'.key \in DOMAIN locks
        /\ locks[last'.key].ownerId # Null
        /\ last'.ownerId # locks[last'.key].ownerId) =>
         last'.key \in DOMAIN locks']_vars

\* C5, amended: end(k, x) removes a record owned by o exactly when x is o or x is
\* null (the call passes no ownerId)
C5_OwnerOrAnonymousEnds ==
    [][(/\ last'.op = "end"
        /\ last'.key \in DOMAIN locks
        /\ locks[last'.key].ownerId # Null) =>
         (last'.key \notin DOMAIN locks') =
            (last'.ownerId \in {Null, locks[last'.key].ownerId})]_vars

\* an end call without ownerId removed an owned record
C5_Witness ==
    /\ last.op = "end" /\ last.ownerId = Null
    /\ last.prevOwner # Null
    /\ last.key \notin DOMAIN locks

\* C6 as stated: end(k, x) removes a record without owner for every x
C6_OwnerlessAlwaysEnds ==
    [][(/\ last'.op = "end"
        /\ last'.key \in DOMAIN locks
        /\ locks[last'.key].ownerId = Null) =>
         last'.key \notin DOMAIN locks']_vars

\* C6, amended: end(k, x) removes a record without owner exactly when x is null;
\* a non-null x is refused and leaves the record and its timer in place
C6_OwnerlessEndsOnlyAnonymous ==
    [][(/\ last'.op = "end"
        /\ last'.key \in DOMAIN locks
        /\ locks[last'.key].ownerId = Null) =>
         /\ (last'.key \notin DOMAIN locks') = (last'.ownerId = Null)
         /\ last'.ownerId # Null => locks' = locks /\ timers' = timers]_vars

\* an end call with an ownerId was refused on a record without owner
C6_Witness ==
    /\ last.op = "end" /\ last.ownerId # Null
    /\ last.key \in DOMAIN locks
    /\ locks[last.key].ownerId = Null
    /\ last.prevCount = getLockCount

\* C7: forceUnlock(k) leaves k unlocked with its timer cancelled, and a firing
\* expiry timer leaves its key unlocked, whatever ownerId the record stored
C7_ForceAndExpiryIgnoreOwner ==
    [][/\ last'.op = "forceUnlock" =>
            /\ last'.key \notin DOMAIN locks'
            /\ last'.key \in DOMAIN locks => TimerOf(locks[last'.key], timers') = {}
       /\ last'.op = "expire" => last'.key \notin DOMAIN locks']_vars

\* forceUnlock removed a record that had an owner and a pending timer
C7_Witness ==
    /\ last.op = "forceUnlock"
    /\ last.prevOwner # Null /\ last.prevTimer
    /\ last.key \notin DOMAIN locks

LiveTimed(id) == \E k \in DOMAIN locks : locks[k].rid = id /\ locks[k].timeoutId # NoTimer

Live(id) == \E k \in DOMAIN locks : locks[k].rid = id

\* C8: a record acquired with timeout > 0 is eventually gone from the registry
\* (its timer fires unless the record was removed before); the timer that fires
\* is the record's own, the firing leaves the key unlocked, and the timer that
\* fired is pending no more, nor is its identity ever given to a later timer
C8_AutoRelease ==
    /\ \A id \in 1..MaxRecords : LiveTimed(id) ~> ~Live(id)
    /\ [][last'.op = "expire" =>
            /\ last'.key \notin DOMAIN locks'
            /\ Cardinality(timers \ timers') = 1
            /\ \A tm \in timers \ timers' :
                  /\ \A tn \in timers' : tn.id # tm.id
                  /\ tm.key = last'.key
                  /\ last'.key \in DOMAIN locks /\ locks[last'.key].timeoutId = tm.id]_vars
    /\ [](\A tm \in timers : tm.id < nextId)

\* an expiry timer fired and removed the record it was scheduled for
C8_Witness ==
    /\ last.op = "expire" /\ last.prevTimer
    /\ last.key \notin DOMAIN locks
    /\ last.prevCount = getLockCount + 1

\* C9: after clearAllLocks the registry is empty and no timer is pending
C9_ClearAllLocks ==
    [][last'.op = "clearAllLocks" =>
         /\ Cardinality(DOMAIN locks') = 0
         /\ \A key \in Keys : key \notin DOMAIN locks'
         /\ timers' = {}]_vars

\* clearAllLocks ran on a registry of two locks with a timer pending
C9_Witness ==
    /\ last.op = "clearAllLocks"
    /\ last.prevCount = 2 /\ last.prevTimer
    /\ getLockCount = 0

\* the promise of a waiter, without its history
Promise(wr) == [pc |-> wr.pc, key |-> wr.key, resolved |-> wr.resolved]

\* C10: a pending waiter does not change while its key is locked; a waiter
\* completes only when its key is unlocked, at the call (and then no poll is
\* scheduled) or at a poll tick, once, and no poll of it is pending afterwards
C10_WaitResolvesOnlyUnlocked ==
    /\ [][\A w \in Waiters :
            /\ (waiter[w].pc = "pending" /\ isLocked(waiter[w].key)) =>
                   Promise(waiter'[w]) = Promise(waiter[w])
            /\ (waiter'[w].pc = "resolved" /\ Promise(waiter'[w]) # Promise(waiter[w])) =>
                   /\ ~isLocked(waiter'[w].key)
                   /\ last'.op \in {"waitForUnlock", "poll"}
            /\ (/\ last'.op = "waitForUnlock"
                /\ Promise(waiter'[w]) # Promise(waiter[w])
                /\ ~isLocked(last'.key)) =>
                   /\ waiter'[w].pc = "resolved"
                   /\ intervals' = intervals]_vars
    /\ [](\A w \in Waiters :
            /\ waiter[w].resolved <= 1
            /\ waiter[w].pc = "resolved" => \A iv \in intervals : iv.w # w
            /\ waiter[w].pc = "resolved" <=> waiter[w].resolved = 1)

\* a waiter that was pending completed at a poll tick while the other waits on
C10_Witness ==
    /\ last.op = "poll" /\ ~isLocked(last.key)
    /\ \E w \in Waiters : waiter[w].pc = "resolved" /\ waiter[w].key = last.key
    /\ \E w \in Waiters : waiter[w].pc = "pending"

\* C11: a pending waiter completes at its first poll tick after the record that
\* held its key was removed: at a tick of a waiter whose record of the previous
\* check is no longer in the registry, the waiter completes
C11_ObservesEveryRelease ==
    [][\A w \in Waiters :
         (/\ last'.op = "poll" /\ last'.by = w
          /\ waiter[w].pc = "pending"
          /\ ~Live(waiter[w].saw)) => waiter'[w].pc = "resolved"]_vars

\* callers that acquire, release and read
NextRead ==
    \/ \E key \in Keys, timeout \in Timeouts, meta \in Metas, ownerId \in OwnerArgs :
          Start(key, timeout, meta, ownerId)
    \/ \E key \in Keys, ownerId \in OwnerArgs : End(key, ownerId)
    \/ \E tm \in timers : Expire(tm)
    \/ \E key \in Keys : IsLocked(key)
    \/ \E key \in Keys : GetLockInfo(key)
    \/ GetLockCount
    \/ GetAllLockedKeys

SpecRead == Init /\ [][NextRead]_vars

\* only workers of the README's processInvoice use the registry
NextOwner ==
    \/ \E t \in Tasks, key \in Keys, timeout \in Timeouts : OwnerEnter(t, key, timeout)
    \/ \E t \in Tasks : OwnerLeave(t)
    \/ \E tm \in timers : Expire(tm)

SpecOwner == Init /\ [][NextOwner]_vars

Max0(n) == IF n > 0 THEN n ELSE 0

\* C12: retryStart returns (given that the event loop runs the timer of each
\* await); it calls start at most `attempts` times; the call of start that
\* succeeds is its last step: it returns true without another suspension, for the
\* record that this call created; a call that has returned does nothing more; it
\* returns false only after `attempts` failed calls, having created no record
C12_RetryTerminates ==
    /\ \A r \in Retriers : (retry[r].pc = "sleeping") ~> (retry[r].pc = "done")
    /\ [][\A r \in Retriers :
            /\ retry'[r].calls <= Max0(retry'[r].attempts)
            /\ retry[r].pc = "done" => retry'[r] = retry[r]
            /\ (last'.op = "start" /\ last'.by = r) =>
                   /\ retry'[r].calls = retry[r].calls + 1
                   /\ last'.ret = (retry'[r].pc = "done")
                   /\ last'.ret = retry'[r].ret
                   /\ last'.ret => /\ retry'[r].slept = retry[r].slept
                                   /\ locks'[last'.key].rid = retry'[r].rid
                                   /\ retry'[r].rid = nextId
                                   /\ nextId' = nextId + 1
            /\ (retry[r].pc # "done" /\ retry'[r].pc = "done" /\ ~retry'[r].ret) =>
                   /\ retry'[r].calls = Max0(retry'[r].attempts)
                   /\ retry'[r].rid = 0
                   /\ locks' = locks /\ nextId' = nextId]_vars
    /\ [](\A r \in Retriers : ~retry[r].ret => retry[r].rid = 0)

\* retryStart returned true at its third call of start, after two suspensions
C12_Witness ==
    \E r \in Retriers :
        /\ retry[r].pc = "done" /\ retry[r].ret
        /\ retry[r].calls = 3 /\ Len(retry[r].slept) = 2
        /\ last.op = "start" /\ last.by = r

\* C13: a retryStart call with attempts = n > 0 that returns false has suspended
\* n-1 times, for initialDelay * 2^i with i = 0..n-2, and a call that is suspended
\* has attempts left
C13_SleepsOnlyBetweenAttempts ==
    \A r \in Retriers :
        /\ (retry[r].pc = "done" /\ ~retry[r].ret /\ retry[r].attempts > 0) =>
               /\ Len(retry[r].slept) = retry[r].attempts - 1
               /\ \A j \in 1..Len(retry[r].slept) :
                      retry[r].slept[j] = retry[r].initialDelay * Pow2(j - 1)
        /\ retry[r].pc = "sleeping" => retry[r].calls < retry[r].attempts

\* C14 as stated: the record that a retryStart call without timeout argument
\* acquires has no expiry timer
C14_RetryDefaultNeverExpires ==
    \A r \in Retriers :
        (last.op = "start" /\ last.by = r /\ last.ret /\ ~retry[r].given) =>
            /\ locks[last.key].timeoutId = NoTimer
            /\ TimerOf(locks[last.key], timers) = {}

\* C14, amended: a retryStart call without timeout argument uses timeout 5000:
\* the record it acquires has a pending expiry timer, and when that timer fires
\* the record is removed
C14_RetryDefaultExpires ==
    /\ [](\A r \in Retriers :
            (last.op = "start" /\ last.by = r /\ last.ret /\ ~retry[r].given) =>
                /\ retry[r].timeout = 5000
                /\ last.timeout
                /\ locks[last.key].timeoutId # NoTimer
                /\ Cardinality(TimerOf(locks[last.key], timers)) = 1)
    /\ [][\A r \in Retriers :
            (/\ last'.op = "expire"
             /\ retry[r].ret /\ ~retry[r].given
             /\ \E tm \in timers \ timers' : tm.id = retry[r].rid) =>
                 ~\E k \in DOMAIN locks' : locks'[k].rid = retry[r].rid]_vars

\* the record of a retryStart call without timeout argument was removed by its timer
C14_Witness ==
    \E r \in Retriers :
        /\ retry[r].pc = "done" /\ retry[r].ret /\ ~retry[r].given
        /\ last.op = "expire" /\ last.prevRid = retry[r].rid
        /\ last.key \notin DOMAIN locks

\* C20: a retryStart call with attempts <= 0 returns false at once: it calls start
\* not once, suspends not once, and leaves registry and timers as they were
C20_NoAttempts ==
    /\ [][\A r \in Retriers :
            (retry[r].pc = "idle" /\ retry'[r].pc # "idle" /\ retry'[r].attempts <= 0) =>
                /\ retry'[r].pc = "done" /\ ~retry'[r].ret
                /\ retry'[r].calls = 0 /\ retry'[r].slept = << >>
                /\ last'.op = "retryEnd"
                /\ locks' = locks /\ timers' = timers /\ nextId' = nextId]_vars
    /\ [](\A r \in Retriers : retry[r].attempts <= 0 => retry[r].pc \in {"idle", "done"})

\* retryStart with attempts <= 0 returned false on a key that was unlocked
C20_Witness ==
    \E r \in Retriers :
        /\ retry[r].pc = "done" /\ ~retry[r].ret /\ retry[r].attempts < 0
        /\ last.op = "retryEnd" /\ last.by = r /\ last.prevRid = 0
        /\ last.key \notin DOMAIN locks

ReadOps == {"isLocked", "getLockInfo", "getLockCount", "getAllLockedKeys"}

\* C15: isLocked, getLockInfo, getLockCount and getAllLockedKeys change neither the
\* registry nor a pending timer; getLockInfo(k) returns undefined exactly when k
\* is unlocked, and else exactly timestamp, meta and ownerId of k's record,
\* without the timer handle
C15_PureReads ==
    [][last'.op \in ReadOps =>
          /\ last'.view.read
          /\ locks' = locks /\ timers' = timers /\ intervals' = intervals /\ nextId' = nextId
          /\ last'.op = "isLocked" => last'.view.ret = (last'.key \in DOMAIN locks)
          /\ last'.op = "getLockCount" => last'.view.ret = Cardinality(DOMAIN locks)
          /\ last'.op = "getAllLockedKeys" =>
                 /\ Len(last'.view.ret) = Cardinality(DOMAIN locks)
                 /\ {last'.view.ret[n] : n \in 1..Len(last'.view.ret)} = DOMAIN locks
          /\ last'.op = "getLockInfo" =>
                 /\ (last'.view.ret = Undefined) = (last'.key \notin DOMAIN locks)
                 /\ last'.key \in DOMAIN locks =>
                        /\ DOMAIN last'.view.ret = {"timestamp", "meta", "ownerId"}
                        /\ last'.view.ret.timestamp = locks[last'.key].timestamp
                        /\ last'.view.ret.meta = locks[last'.key].meta
                        /\ last'.view.ret.ownerId = locks[last'.key].ownerId]_vars

\* getLockInfo returned the visible fields of a record that has a pending timer
C15_Witness ==
    /\ last.op = "getLockInfo" /\ last.view.read
    /\ last.prevTimer /\ last.prevOwner = "w1"
    /\ last.view.ret # Undefined
    /\ last.view.ret.meta = "m1"
    /\ locks[last.key].timeoutId # NoTimer
    /\ TimerOf(locks[last.key], timers) # {}

\* C16: the pending expiry timers are, one to one, those of the live records
\* acquired with timeout > 0: such a record has exactly one pending timer, a
\* record acquired with timeout <= 0 has none, no timer is pending for an
\* unlocked key or for a removed record, and a handle that fired or was
\* cancelled is never pending again
C16_TimersMatchRecords ==
    /\ [](/\ \A k \in DOMAIN locks :
                IF locks[k].timeoutId # NoTimer
                THEN TimerOf(locks[k], timers) = {[id |-> locks[k].timeoutId, key |-> k]}
                ELSE \A tm \in timers : tm.key # k
          /\ \A tm \in timers :
                /\ tm.key \in DOMAIN locks
                /\ locks[tm.key].timeoutId = tm.id
                /\ tm.id < nextId
                /\ tm \notin cleared)
    /\ [][/\ (last'.op = "start" /\ last'.ret) =>
                 (last'.timeout <=> locks'[last'.key].timeoutId # NoTimer)
          /\ \A tm \in timers' \ timers : tm.id = nextId /\ nextId' = nextId + 1]_vars

\* a timed record is live with its timer pending, on a key where an earlier
\* record's timer was cancelled
C16_Witness ==
    \E tm \in cleared :
        /\ tm.key \in DOMAIN locks
        /\ locks[tm.key].timeoutId # NoTimer
        /\ TimerOf(locks[tm.key], timers) # {}

\* C17: an expiry timer removes only the record that scheduled it; the timer of a
\* record that end, forceUnlock or clearAllLocks removed never fires, so it never
\* removes a later record of the same key
C17_TimerRemovesOwnRecord ==
    [][last'.op = "expire" =>
          \A tm \in timers \ timers' :
              /\ tm \notin cleared
              /\ locksHas(tm.key) => /\ locks[tm.key].timeoutId = tm.id
                                     /\ locks[tm.key].rid = tm.id
              /\ \A k \in DOMAIN locks \ {tm.key} : k \in DOMAIN locks' /\ locks'[k] = locks[k]]_vars

\* the timer of a key's later record fired, after an earlier timed record of that
\* key had been released
C17_Witness ==
    /\ last.op = "expire" /\ last.prevTimer
    /\ \E tm \in cleared : tm.key = last.key /\ tm.id < last.prevRid
    /\ last.key \notin DOMAIN locks

\* C18: end(k, o) and forceUnlock(k) on an unlocked key change nothing, for every o
C18_ReleaseOfUnlockedKey ==
    [][(last'.op \in {"end", "forceUnlock"} /\ last'.key \notin DOMAIN locks) =>
          /\ locks' = locks
          /\ timers' = timers
          /\ nextId' = nextId /\ intervals' = intervals]_vars

\* a release with an ownerId was repeated on a key it had opened, while another
\* key is locked with a pending timer
C18_Witness ==
    /\ last.op = "end" /\ last.ownerId # Null /\ last.prevRid = 0
    /\ \E tm \in cleared : tm.key = last.key
    /\ last.key \notin DOMAIN locks
    /\ \E k \in DOMAIN locks : TimerOf(locks[k], timers) # {}

\* C19: when each worker passes its own ownerId to start and to end, an end removes
\* no record of another worker and cancels no timer of another worker's record
C19_EndKeepsForeignRecord ==
    [][last'.op = "end" =>
          /\ \A k \in DOMAIN locks :
                locks[k].ownerId # last'.ownerId => (k \in DOMAIN locks' /\ locks'[k] = locks[k])
          /\ \A tm \in timers \ timers' : locks[tm.key].ownerId = last'.ownerId]_vars

\* w1's lock expired while w1 was inside, w2 acquired the key with a timeout, and
\* w1's end left w2's record and timer in place
C19_Witness ==
    /\ last.op = "end" /\ last.ownerId = "w1" /\ last.prevOwner = "w2"
    /\ last.key \in overrun
    /\ last.key \in DOMAIN locks
    /\ locks[last.key].ownerId = "w2"
    /\ TimerOf(locks[last.key], timers) # {}
    /\ \E t \in Tasks : task[t].pc = "inside" /\ task[t].key = last.key

====
